---------------------------- MODULE Spec2Model ----------------------------
(***************************************************************************)
(* leaked.h: the allocation registry (a chained hash table that grows by   *)
(* doubling), the four tracked primitives, the leak report and the         *)
(* one-time installation of the exit hook and the fatal-signal handlers.   *)
(*                                                                         *)
(* A critical section (LOCK() ... UNLOCK()) is one step; the calls to the  *)
(* underlying allocator made outside the lock are steps of their own, so   *)
(* that threads interleave exactly where the code lets them.               *)
(***************************************************************************)
EXTENDS Integers, Sequences, FiniteSets

(***************************************************************************)
(* Bounds of the model.                                                    *)
(***************************************************************************)
\* LEAKED_INITIAL_CAP is 1024 in leaked.h:62; the model runs the same code
\* on a table that starts this small, so that growth is reached.
LEAKED_INITIAL_CAP == 1
\* the width of size_t in bits (64 in the usual build), scaled
SizeBits == 4
\* tracked calls that may add a record are started only below this many
\* records (an in-place resize can add records without end)
MaxAlive == 3
\* invalid releases are issued only below this many diagnostics
MaxDiag == 1

(***************************************************************************)
(* Program constants.                                                      *)
(***************************************************************************)
LEAKED_LOAD_NUM == 3
LEAKED_LOAD_DEN == 4

NULL == 0
SIZE_MAX == 2^SizeBits - 1

\* the threads of the program; thread 1 runs main
MainThread == 1
Threads == {1, 2}
\* the addresses the underlying allocator hands out (16-byte aligned)
Addrs == {16, 32}
\* an address the allocator never returns (sttest.c frees 0x1234)
FakePtr == 4660
\* the call sites of the model: one per tracked primitive, as in main.c
MallocSite == [n |-> 1, file |-> "main.c", line |-> 11]
CallocSite == [file |-> "main.c", line |-> 12]
ReallocSite == [n |-> 3, file |-> "main.c", line |-> 13]
\* the (count, size) pairs passed to calloc: one that fits, and one whose
\* product is SIZE_MAX + 1, which wraps to 0
CallocArgs == {<<2, 1>>, <<2, (SIZE_MAX + 1) \div 2>>}
Signals == {"SIGSEGV", "SIGABRT", "SIGILL", "SIGFPE"}
\* the signals the threads of the model raise
Raised == {"SIGSEGV", "SIGABRT"}

(***************************************************************************)
(* Blk and Mgr.  A chain is the sequence of its nodes from the head; the   *)
(* table is the sequence of its chains (bucket i of the code is element    *)
(* i + 1); a NULL table is the empty sequence.                             *)
(***************************************************************************)
NullTable == << >>

Blk(p, sz, f, l) == [ptr |-> p, sz |-> sz, file |-> f, line |-> l]

Mgr0 == [table |-> NullTable, capacity |-> 0, alive |-> 0]

RECURSIVE BitXor(_, _)
BitXor(a, b) ==
    IF a = 0 THEN b
    ELSE IF b = 0 THEN a
    ELSE (((a % 2) + (b % 2)) % 2) + (2 * BitXor(a \div 2, b \div 2))

\* v = (v >> 4) ^ (v << 5); v % cap.  The addresses of the model are below
\* 2^13, so v << 5 loses no bit of a 64-bit uintptr_t.
_hash_ptr(p, cap) ==
    IF cap = 0 THEN 0
    ELSE BitXor(p \div 16, p * 32) % cap

\* a zeroed bucket array: calloc(cap, sizeof(Blk*))
RECURSIVE EmptyTable(_)
EmptyTable(cap) == IF cap = 0 THEN << >> ELSE <<(<< >>)>> \o EmptyTable(cap - 1)

\* calloc(mgr.capacity, sizeof(Blk*)) succeeds or not (callocOK)
_ensure_table_ext(m, callocOK) ==
    IF m.table = NullTable
    THEN [m EXCEPT !.capacity = LEAKED_INITIAL_CAP,
                   !.table = IF callocOK
                             THEN EmptyTable(LEAKED_INITIAL_CAP)
                             ELSE NullTable]
    ELSE m

\* the inner loop of _rehash without cur = next: only the head of a chain
\* is moved
RehashChain_head_only(chain, new_table, new_cap) ==
    IF chain = << >> THEN new_table
    ELSE LET cur == Head(chain)
             idx == _hash_ptr(cur.ptr, new_cap)
         IN  [new_table EXCEPT ![idx + 1] = <<cur>> \o @]

\* the inner while loop of _rehash: each node of a chain, from the head, is
\* pushed on the head of its chain in the new table
RECURSIVE RehashChain(_, _, _)
RehashChain(chain, new_table, new_cap) ==
    IF chain = << >> THEN new_table
    ELSE LET cur == Head(chain)
             idx == _hash_ptr(cur.ptr, new_cap)
         IN  RehashChain(Tail(chain),
                         [new_table EXCEPT ![idx + 1] = <<cur>> \o @],
                         new_cap)

\* the outer for loop of _rehash, from bucket i on
RECURSIVE RehashFrom(_, _, _, _)
RehashFrom(i, m, new_table, new_cap) ==
    IF i >= m.capacity THEN new_table
    ELSE RehashFrom(i + 1, m,
                    RehashChain(m.table[i + 1], new_table, new_cap), new_cap)

_rehash(m, new_cap, callocOK) ==
    IF m.table = NullTable \/ new_cap = 0 THEN m
    ELSE IF ~callocOK THEN m
    ELSE [m EXCEPT !.table = RehashFrom(0, m, EmptyTable(new_cap), new_cap),
                   !.capacity = new_cap]

_maybe_resize(m, callocOK) ==
    IF m.table = NullTable THEN m
    ELSE IF m.alive > (m.capacity * LEAKED_LOAD_NUM) \div LEAKED_LOAD_DEN
         THEN _rehash(m, m.capacity * 2, callocOK)
         ELSE m

\* _add_blk with b->next = NULL in place of b->next = mgr.table[idx]: the
\* new node replaces the chain
_add_blk_cuts_chain(m, p, sz, f, l, tableOK, growOK, blkOK) ==
    IF p = NULL THEN [mgr |-> m, added |-> FALSE, fault |-> FALSE]
    ELSE LET m1 == _ensure_table_ext(m, tableOK)
             m2 == _maybe_resize(m1, growOK)
             idx == _hash_ptr(p, m2.capacity)
         IN  IF ~blkOK
             THEN [mgr |-> m2, added |-> FALSE, fault |-> FALSE]
             ELSE IF m2.table = NullTable
             THEN [mgr |-> m2, added |-> FALSE, fault |-> TRUE]
             ELSE [mgr |-> [m2 EXCEPT
                              !.table[idx + 1] = <<Blk(p, sz, f, l)>>,
                              !.alive = @ + 1],
                   added |-> TRUE, fault |-> FALSE]

\* _add_blk with mgr.alive++ outside if (b): a node that could not be
\* allocated is counted
_add_blk_counts_dropped(m, p, sz, f, l, tableOK, growOK, blkOK) ==
    IF p = NULL THEN [mgr |-> m, added |-> FALSE, fault |-> FALSE]
    ELSE LET m1 == _ensure_table_ext(m, tableOK)
             m2 == _maybe_resize(m1, growOK)
             idx == _hash_ptr(p, m2.capacity)
         IN  IF ~blkOK
             THEN [mgr |-> [m2 EXCEPT !.alive = @ + 1],
                   added |-> FALSE, fault |-> FALSE]
             ELSE IF m2.table = NullTable
             THEN [mgr |-> m2, added |-> FALSE, fault |-> TRUE]
             ELSE [mgr |-> [m2 EXCEPT
                              !.table[idx + 1] = <<Blk(p, sz, f, l)>> \o @,
                              !.alive = @ + 1],
                   added |-> TRUE, fault |-> FALSE]

\* _add_blk between LOCK() and UNLOCK().  tableOK, growOK and blkOK say
\* whether the calloc of _ensure_table_ext, the calloc of _rehash and the
\* malloc of the node succeed.  added: a node was linked.  fault: the node
\* was allocated while mgr.table is NULL, and b->next = mgr.table[idx] reads
\* through the null pointer (the read is of page 0: SIGSEGV).
_add_blk(m, p, sz, f, l, tableOK, growOK, blkOK) ==
    IF p = NULL THEN [mgr |-> m, added |-> FALSE, fault |-> FALSE]
    ELSE LET m1 == _ensure_table_ext(m, tableOK)
             m2 == _maybe_resize(m1, growOK)
             idx == _hash_ptr(p, m2.capacity)
         IN  IF ~blkOK
             THEN [mgr |-> m2, added |-> FALSE, fault |-> FALSE]
             ELSE IF m2.table = NullTable
             THEN [mgr |-> m2, added |-> FALSE, fault |-> TRUE]
             ELSE [mgr |-> [m2 EXCEPT
                              !.table[idx + 1] = <<Blk(p, sz, f, l)>> \o @,
                              !.alive = @ + 1],
                   added |-> TRUE, fault |-> FALSE]

\* the position of the first node of a chain that holds p, 0 when none does
FirstAt(chain, p) ==
    IF \E k \in 1..Len(chain) : chain[k].ptr = p
    THEN CHOOSE k \in 1..Len(chain) :
            /\ chain[k].ptr = p
            /\ \A j \in 1..(k - 1) : chain[j].ptr # p
    ELSE 0

\* *pp = tmp->next
Unlink(chain, k) == SubSeq(chain, 1, k - 1) \o SubSeq(chain, k + 1, Len(chain))

\* _del_blk that unlinks the head of the chain when no node holds p
_del_blk_unlinks_head(m, p) ==
    IF p = NULL THEN [mgr |-> m, ok |-> FALSE, diag |-> 0]
    ELSE IF m.table = NullTable THEN [mgr |-> m, ok |-> FALSE, diag |-> 1]
    ELSE LET idx == _hash_ptr(p, m.capacity)
             k == FirstAt(m.table[idx + 1], p)
         IN  IF k = 0
             THEN [mgr |-> [m EXCEPT !.table[idx + 1] = Unlink(@, 1)],
                   ok |-> FALSE, diag |-> 1]
             ELSE [mgr |-> [m EXCEPT !.table[idx + 1] = Unlink(@, k),
                                     !.alive = @ - 1],
                   ok |-> TRUE, diag |-> 0]

\* _del_blk whose loop stops after the head of the chain
_del_blk_head_only(m, p) ==
    IF p = NULL THEN [mgr |-> m, ok |-> FALSE, diag |-> 0]
    ELSE IF m.table = NullTable THEN [mgr |-> m, ok |-> FALSE, diag |-> 1]
    ELSE LET idx == _hash_ptr(p, m.capacity)
             chain == m.table[idx + 1]
         IN  IF chain = << >> \/ Head(chain).ptr # p
             THEN [mgr |-> m, ok |-> FALSE, diag |-> 1]
             ELSE [mgr |-> [m EXCEPT !.table[idx + 1] = Tail(@),
                                     !.alive = @ - 1],
                   ok |-> TRUE, diag |-> 0]

\* _del_blk: ok is its result; diag is the number of "invalid free" lines
\* it prints (the fprintf after UNLOCK())
_del_blk(m, p) ==
    IF p = NULL THEN [mgr |-> m, ok |-> FALSE, diag |-> 0]
    ELSE IF m.table = NullTable THEN [mgr |-> m, ok |-> FALSE, diag |-> 1]
    ELSE LET idx == _hash_ptr(p, m.capacity)
             k == FirstAt(m.table[idx + 1], p)
         IN  IF k = 0 THEN [mgr |-> m, ok |-> FALSE, diag |-> 1]
             ELSE [mgr |-> [m EXCEPT !.table[idx + 1] = Unlink(@, k),
                                     !.alive = @ - 1],
                   ok |-> TRUE, diag |-> 0]

\* show_leaks that reads the table in place, without the swap
show_leaks_detach_keeps_table(m) ==
    IF m.table = NullTable \/ m.alive = 0
    THEN [mgr |-> m, returned |-> TRUE, snapshot |-> NullTable]
    ELSE [mgr |-> m, returned |-> FALSE, snapshot |-> m.table]

\* the locked part of show_leaks: return at once, or detach the table
show_leaks_detach(m) ==
    IF m.table = NullTable \/ m.alive = 0
    THEN [mgr |-> m, returned |-> TRUE, snapshot |-> NullTable]
    ELSE [mgr |-> Mgr0, returned |-> FALSE, snapshot |-> m.table]

\* the nodes of a table in the order the loops of show_leaks visit them
RECURSIVE Nodes(_)
Nodes(table) ==
    IF table = << >> THEN << >> ELSE Head(table) \o Nodes(Tail(table))

RECURSIVE SumSz(_)
SumSz(nodes) ==
    IF nodes = << >> THEN 0
    ELSE (Head(nodes).sz + SumSz(Tail(nodes))) % (SIZE_MAX + 1)

\* what show_leaks prints for a snapshot: a line per node, then the total
\* line when total_count > 0
show_leaks_print(snap) ==
    [leaks |-> Nodes(snap),
     total |-> IF Len(Nodes(snap)) > 0
               THEN <<[count |-> Len(Nodes(snap)), bytes |-> SumSz(Nodes(snap))]>>
               ELSE << >>]

(***************************************************************************)
(* The state.                                                              *)
(***************************************************************************)
VARIABLES
    threadSafe,   \* the build: LEAKED_THREAD_SAFE is defined
    threads,      \* the threads the program runs
    mgr,          \* the global manager
    lock,         \* mgr.lock: the thread that holds it, 0 when free
    heap,         \* the underlying allocator: what each address holds
    pc,           \* where each thread is
    loc,          \* the arguments and locals of the call a thread is in
    sig,          \* the signal whose handler a thread runs, "none" otherwise
    snapshot,     \* show_leaks' detached table, per thread
    done,         \* leaked_init's static flag
    atexitN,      \* how many times show_leaks is registered with atexit
    atexitLeft,   \* exit(): the registered calls still to run
    disp,         \* the disposition of each signal: "DFL" or "handler"
    proc,         \* the process: "run", "exit", "done" or "killed"
    invalidFrees, \* the "invalid free" lines written to stderr
    reports,      \* the leak reports written to stderr, in order
    hist          \* history, read by no action.  allocOnly: the program
                  \* has called nothing but malloc and calloc so far;
                  \* allocs: while that is so, the allocations that reached
                  \* _add_blk, in order; dropped: some _add_blk could not
                  \* allocate its node and returned without linking one

vars == <<threadSafe, threads, mgr, lock, heap, pc, loc, sig, snapshot, done,
          atexitN, atexitLeft, disp, proc, invalidFrees, reports, hist>>

\* hist after a call of free or realloc
Stopped == [hist EXCEPT !.allocOnly = FALSE, !.allocs = << >>]

\* heap[a] is the thread that holds the block at a, 0 when a is not allocated
Free == 0
NoLoc == [p |-> NULL, n |-> 0, file |-> "", line |-> 0, old |-> NULL]

\* the addresses the allocator may return, and those thread t holds
FreeAddrs == {a \in Addrs : heap[a] = Free}
Owned(t) == {a \in Addrs : heap[a] = t}

Init ==
    /\ threadSafe \in BOOLEAN
    /\ threads \in {{MainThread}, Threads}
    /\ (~threadSafe => threads = {MainThread})
    /\ mgr = Mgr0
    /\ lock = 0
    /\ heap = [a \in Addrs |-> Free]
    /\ pc = [t \in Threads |-> "idle"]
    /\ loc = [t \in Threads |-> NoLoc]
    /\ sig = [t \in Threads |-> "none"]
    /\ snapshot = [t \in Threads |-> NullTable]
    /\ done = 0
    /\ atexitN = 0
    /\ atexitLeft = 0
    /\ disp = [s \in Signals |-> "DFL"]
    /\ proc = "run"
    /\ invalidFrees = 0
    /\ reports = << >>
    /\ hist = [allocOnly |-> TRUE, allocs |-> << >>, dropped |-> FALSE]

Running == proc \in {"run", "exit"}

\* thread t is in the code of the program, between two calls
InUser(t) == Running /\ t \in threads /\ pc[t] = "idle"

\* signal s is delivered to thread t: _crash_handler starts (its fprintf
\* and the call of show_leaks), or the default action ends the process
Deliver(t, s) ==
    IF disp[s] = "handler"
    THEN /\ pc' = [pc EXCEPT ![t] = "show"]
         /\ sig' = [sig EXCEPT ![t] = s]
         /\ proc' = proc
    ELSE /\ pc' = pc
         /\ sig' = sig
         /\ proc' = "killed"

(***************************************************************************)
(* leaked_init: the test of done, then the body of the if.                 *)
(***************************************************************************)
leaked_init_test(t) ==
    /\ InUser(t)
    /\ pc' = [pc EXCEPT ![t] = IF done = 0 THEN "init" ELSE "idle"]
    /\ UNCHANGED <<threadSafe, threads, mgr, lock, heap, loc, sig, snapshot,
                   done, atexitN, atexitLeft, disp, proc, invalidFrees,
                   reports, hist>>

leaked_init_install(t) ==
    /\ Running /\ pc[t] = "init"
    /\ done' = 1
    /\ atexitN' = atexitN + 1
    \* a function registered while exit() runs its list is run too
    /\ atexitLeft' = IF proc = "exit" THEN atexitLeft + 1 ELSE atexitLeft
    /\ disp' = [s \in Signals |-> "handler"]
    /\ pc' = [pc EXCEPT ![t] = "idle"]
    /\ UNCHANGED <<threadSafe, threads, mgr, lock, heap, loc, sig, snapshot,
                   proc, invalidFrees, reports, hist>>

(***************************************************************************)
(* _xmalloc, _xcalloc: the call of the underlying allocator.               *)
(***************************************************************************)
\* the allocator returned p for n bytes: the caller goes on to _add_blk
Allocated(t, p, n, site) ==
    /\ heap' = [heap EXCEPT ![p] = t]
    /\ pc' = [pc EXCEPT ![t] = "add"]
    /\ loc' = [loc EXCEPT ![t] = [p |-> p, n |-> n, file |-> site.file,
                                  line |-> site.line, old |-> NULL]]

xmalloc_call(t) ==
    /\ InUser(t)
    /\ mgr.alive < MaxAlive
    /\ \E p \in {NULL} \cup FreeAddrs :
          IF p = NULL
          THEN UNCHANGED <<heap, pc, loc>>
          ELSE Allocated(t, p, MallocSite.n, MallocSite)
    /\ UNCHANGED <<threadSafe, threads, mgr, lock, sig, snapshot, done,
                   atexitN, atexitLeft, disp, proc, invalidFrees, reports, hist>>

\* _xcalloc's guard written as the code would be without it: the product is
\* taken in size_t and compared after it has wrapped
calloc_overflows_wrapped(nm, s) == (nm * s) % (SIZE_MAX + 1) > SIZE_MAX

\* nm && s > ((size_t)-1) / nm
calloc_overflows(nm, s) == nm # 0 /\ s > SIZE_MAX \div nm

\* calloc(nm, s) by thread t, up to the return of the underlying calloc
xcalloc(t, nm, s) ==
    /\ InUser(t)
    /\ mgr.alive < MaxAlive
    /\ IF calloc_overflows(nm, s)
       THEN /\ pc' = [pc EXCEPT ![t] = "cnull"]
            /\ loc' = [loc EXCEPT ![t] = [NoLoc EXCEPT
                                            !.file = CallocSite.file,
                                            !.line = CallocSite.line]]
            /\ heap' = heap
       ELSE \E p \in {NULL} \cup FreeAddrs :
               IF p = NULL
               THEN UNCHANGED <<heap, pc, loc>>
               ELSE Allocated(t, p, (nm * s) % (SIZE_MAX + 1), CallocSite)
    /\ UNCHANGED <<threadSafe, threads, mgr, lock, sig, snapshot, done,
                   atexitN, atexitLeft, disp, proc, invalidFrees, reports, hist>>

xcalloc_call(t) == \E a \in CallocArgs : xcalloc(t, a[1], a[2])

\* if (nm && s > ((size_t)-1) / nm) return NULL;
xcalloc_null(t) ==
    /\ Running /\ pc[t] = "cnull"
    /\ pc' = [pc EXCEPT ![t] = "idle"]
    /\ loc' = [loc EXCEPT ![t] = NoLoc]
    /\ UNCHANGED <<threadSafe, threads, mgr, lock, heap, sig, snapshot, done,
                   atexitN, atexitLeft, disp, proc, invalidFrees, reports,
                   hist>>

(***************************************************************************)
(* _add_blk, as called by _xmalloc, _xcalloc and _xrealloc.                *)
(***************************************************************************)
add_blk(t) ==
    /\ Running /\ pc[t] = "add" /\ lock = 0
    /\ \E tableOK, growOK, blkOK \in BOOLEAN :
          LET r == _add_blk(mgr, loc[t].p, loc[t].n, loc[t].file,
                            loc[t].line, tableOK, growOK, blkOK)
          IN  /\ mgr' = r.mgr
              /\ hist' = [hist EXCEPT
                            !.allocs = IF hist.allocOnly
                                       THEN Append(@, [ptr |-> loc[t].p,
                                                       n |-> loc[t].n,
                                                       added |-> r.added])
                                       ELSE @,
                            !.dropped = @ \/ (~r.added /\ ~r.fault)]
              /\ IF r.fault
                 THEN \* SIGSEGV inside the critical section
                      /\ lock' = IF threadSafe THEN t ELSE 0
                      /\ Deliver(t, "SIGSEGV")
                      /\ loc' = loc
                 ELSE /\ lock' = lock
                      /\ pc' = [pc EXCEPT ![t] = "idle"]
                      /\ loc' = [loc EXCEPT ![t] = NoLoc]
                      /\ UNCHANGED <<sig, proc>>
    /\ UNCHANGED <<threadSafe, threads, heap, snapshot, done, atexitN,
                   atexitLeft, disp, invalidFrees, reports>>

(***************************************************************************)
(* _xrealloc: the call of realloc, then _del_blk(old) when the block has   *)
(* moved, then _add_blk.                                                   *)
(***************************************************************************)
xrealloc_call(t) ==
    /\ InUser(t)
    /\ mgr.alive < MaxAlive /\ invalidFrees <= MaxDiag
    /\ hist' = Stopped
    /\ \E old \in {NULL} \cup Owned(t) :
       \E p \in {NULL} \cup FreeAddrs \cup ({old} \ {NULL}) :
          LET n == ReallocSite.n
              l == [p |-> p, n |-> n, file |-> ReallocSite.file,
                    line |-> ReallocSite.line, old |-> old]
          IN  IF p = NULL
              THEN /\ heap' = heap
                   /\ pc' = [pc EXCEPT ![t] = "rnull"]
                   /\ loc' = [loc EXCEPT ![t] = l]
              ELSE IF p = old
              THEN /\ heap' = heap
                   /\ pc' = [pc EXCEPT ![t] = "add"]
                   /\ loc' = [loc EXCEPT ![t] = l]
              ELSE /\ heap' = [a \in Addrs |->
                                 IF a = p THEN t
                                 ELSE IF a = old THEN Free ELSE heap[a]]
                   /\ pc' = [pc EXCEPT ![t] =
                               IF old # NULL THEN "rdel" ELSE "add"]
                   /\ loc' = [loc EXCEPT ![t] = l]
    /\ UNCHANGED <<threadSafe, threads, mgr, lock, sig, snapshot, done,
                   atexitN, atexitLeft, disp, proc, invalidFrees, reports>>

\* _xrealloc that gives up the record of old when realloc fails
xrealloc_null_drops_old(t) ==
    /\ Running /\ pc[t] = "rnull" /\ lock = 0
    /\ mgr' = _del_blk(mgr, loc[t].old).mgr
    /\ pc' = [pc EXCEPT ![t] = "idle"]
    /\ loc' = [loc EXCEPT ![t] = NoLoc]
    /\ UNCHANGED <<threadSafe, threads, lock, heap, sig, snapshot, done,
                   atexitN, atexitLeft, disp, proc, invalidFrees, reports,
                   hist>>

\* if (!p) return NULL;
xrealloc_null(t) ==
    /\ Running /\ pc[t] = "rnull"
    /\ pc' = [pc EXCEPT ![t] = "idle"]
    /\ loc' = [loc EXCEPT ![t] = NoLoc]
    /\ UNCHANGED <<threadSafe, threads, mgr, lock, heap, sig, snapshot, done,
                   atexitN, atexitLeft, disp, proc, invalidFrees, reports,
                   hist>>

xrealloc_del(t) ==
    /\ Running /\ pc[t] = "rdel" /\ lock = 0
    /\ LET r == _del_blk(mgr, loc[t].old)
       IN  /\ mgr' = r.mgr
           /\ invalidFrees' = invalidFrees + r.diag
    /\ pc' = [pc EXCEPT ![t] = "add"]
    /\ UNCHANGED <<threadSafe, threads, lock, heap, loc, sig, snapshot, done,
                   atexitN, atexitLeft, disp, proc, reports, hist>>

(***************************************************************************)
(* _xfree: _del_blk, then free when it returned 1.                         *)
(***************************************************************************)
\* free(p) by thread t, up to the return of _del_blk
xfree(t, p) ==
    /\ InUser(t)
    /\ hist' = Stopped
    /\ LET r == _del_blk(mgr, p)
       IN  /\ p # NULL => lock = 0
           /\ r.diag > 0 => invalidFrees < MaxDiag
           /\ mgr' = r.mgr
           /\ invalidFrees' = invalidFrees + r.diag
           /\ IF r.ok
              THEN /\ pc' = [pc EXCEPT ![t] = "free"]
                   /\ loc' = [loc EXCEPT ![t] = [NoLoc EXCEPT !.p = p]]
              ELSE UNCHANGED <<pc, loc>>
    /\ UNCHANGED <<threadSafe, threads, lock, heap, sig, snapshot, done,
                   atexitN, atexitLeft, disp, proc, reports>>

\* the program frees any pointer: one it holds, one it has freed before,
\* NULL, or one that was never allocated
xfree_call(t) == \E p \in {NULL, FakePtr} \cup Addrs : xfree(t, p)

\* the program frees a block it holds
xfree_own(t) == \E p \in Owned(t) : xfree(t, p)

\* free(p).  When p is not an allocated block the call is undefined: the
\* allocator goes on as if nothing had happened, or detects it and aborts.
real_free(t) ==
    /\ Running /\ pc[t] = "free"
    /\ loc' = [loc EXCEPT ![t] = NoLoc]
    /\ IF heap[loc[t].p] # Free
       THEN /\ heap' = [heap EXCEPT ![loc[t].p] = Free]
            /\ pc' = [pc EXCEPT ![t] = "idle"]
            /\ UNCHANGED <<sig, proc>>
       ELSE /\ heap' = heap
            /\ \/ /\ pc' = [pc EXCEPT ![t] = "idle"]
                  /\ UNCHANGED <<sig, proc>>
               \/ Deliver(t, "SIGABRT")
    /\ UNCHANGED <<threadSafe, threads, mgr, lock, snapshot, done, atexitN,
                   atexitLeft, disp, invalidFrees, reports, hist>>

(***************************************************************************)
(* show_leaks, run by exit() or by _crash_handler.                         *)
(***************************************************************************)
\* show_leaks returns in thread t: to exit()'s list, or to _crash_handler
Returned(t) ==
    IF sig[t] # "none"
    THEN /\ pc' = [pc EXCEPT ![t] = "h_reset"]
         /\ UNCHANGED <<atexitLeft, proc>>
    ELSE IF atexitLeft > 1
    THEN /\ pc' = [pc EXCEPT ![t] = "show"]
         /\ atexitLeft' = atexitLeft - 1
         /\ proc' = proc
    ELSE /\ pc' = [pc EXCEPT ![t] = "idle"]
         /\ atexitLeft' = 0
         /\ proc' = "done"

\* main returns: exit() runs what atexit registered
exit_call(t) ==
    /\ t = MainThread /\ InUser(t) /\ proc = "run"
    /\ atexitLeft' = atexitN
    /\ IF atexitN = 0
       THEN proc' = "done" /\ pc' = pc
       ELSE proc' = "exit" /\ pc' = [pc EXCEPT ![t] = "show"]
    /\ UNCHANGED <<threadSafe, threads, mgr, lock, heap, loc, sig, snapshot,
                   done, atexitN, disp, invalidFrees, reports, hist>>

\* show_leaks with a lock its holder can take again (a recursive mutex)
show_leaks_lock_recursive(t) ==
    /\ Running /\ pc[t] = "show" /\ lock \in {0, t}
    /\ LET r == show_leaks_detach(mgr)
       IN  /\ mgr' = r.mgr
           /\ snapshot' = [snapshot EXCEPT ![t] = r.snapshot]
           /\ IF r.returned
              THEN Returned(t)
              ELSE /\ pc' = [pc EXCEPT ![t] = "print"]
                   /\ UNCHANGED <<atexitLeft, proc>>
    /\ UNCHANGED <<threadSafe, threads, lock, heap, loc, sig, done, atexitN,
                   disp, invalidFrees, reports, hist>>

show_leaks_lock(t) ==
    /\ Running /\ pc[t] = "show" /\ lock = 0
    /\ LET r == show_leaks_detach(mgr)
       IN  /\ mgr' = r.mgr
           /\ snapshot' = [snapshot EXCEPT ![t] = r.snapshot]
           /\ IF r.returned
              THEN Returned(t)
              ELSE /\ pc' = [pc EXCEPT ![t] = "print"]
                   /\ UNCHANGED <<atexitLeft, proc>>
    /\ UNCHANGED <<threadSafe, threads, lock, heap, loc, sig, done, atexitN,
                   disp, invalidFrees, reports, hist>>

show_leaks_out(t) ==
    /\ Running /\ pc[t] = "print"
    /\ reports' = Append(reports, show_leaks_print(snapshot[t]))
    /\ snapshot' = [snapshot EXCEPT ![t] = NullTable]
    /\ Returned(t)
    /\ UNCHANGED <<threadSafe, threads, mgr, lock, heap, loc, sig, done,
                   atexitN, disp, invalidFrees, hist>>

(***************************************************************************)
(* Fatal signals and _crash_handler.                                       *)
(***************************************************************************)
\* the program faults in its own code (sttest.c: *(volatile int*)0 = 1)
fault(t) ==
    /\ InUser(t)
    /\ \E s \in Raised : Deliver(t, s)
    /\ UNCHANGED <<threadSafe, threads, mgr, lock, heap, loc, snapshot, done,
                   atexitN, atexitLeft, disp, invalidFrees, reports, hist>>

\* a fatal signal reaches thread t inside _add_blk, after LOCK() and before
\* anything is written (kill from outside the process): the lock stays
\* held by t while the handler runs
signal_in_add(t) ==
    /\ Running /\ t \in threads /\ pc[t] = "add" /\ lock = 0
    /\ lock' = IF threadSafe THEN t ELSE 0
    /\ \E s \in Raised : Deliver(t, s)
    /\ UNCHANGED <<threadSafe, threads, mgr, heap, loc, snapshot, done,
                   atexitN, atexitLeft, disp, invalidFrees, reports, hist>>

\* _crash_handler without signal(sig, SIG_DFL): raise(sig) enters the
\* handler again
crash_handler_keeps_handler(t) ==
    /\ Running /\ pc[t] = "h_reset"
    /\ pc' = [pc EXCEPT ![t] = "h_raise"]
    /\ UNCHANGED <<threadSafe, threads, mgr, lock, heap, loc, sig, snapshot,
                   done, atexitN, atexitLeft, disp, proc, invalidFrees,
                   reports, hist>>

\* signal(sig, SIG_DFL)
crash_handler_reset(t) ==
    /\ Running /\ pc[t] = "h_reset"
    /\ disp' = [disp EXCEPT ![sig[t]] = "DFL"]
    /\ pc' = [pc EXCEPT ![t] = "h_raise"]
    /\ UNCHANGED <<threadSafe, threads, mgr, lock, heap, loc, sig, snapshot,
                   done, atexitN, atexitLeft, proc, invalidFrees, reports, hist>>

\* raise(sig)
crash_handler_raise(t) ==
    /\ Running /\ pc[t] = "h_raise"
    /\ Deliver(t, sig[t])
    /\ UNCHANGED <<threadSafe, threads, mgr, lock, heap, loc, snapshot, done,
                   atexitN, atexitLeft, disp, invalidFrees, reports, hist>>

Next ==
    \E t \in Threads :
        \/ leaked_init_test(t)
        \/ leaked_init_install(t)
        \/ xmalloc_call(t)
        \/ xcalloc_call(t)
        \/ xcalloc_null(t)
        \/ add_blk(t)
        \/ xrealloc_call(t)
        \/ xrealloc_null(t)
        \/ xrealloc_del(t)
        \/ xfree_call(t)
        \/ real_free(t)
        \/ exit_call(t)
        \/ show_leaks_lock(t)
        \/ show_leaks_out(t)
        \/ fault(t)
        \/ signal_in_add(t)
        \/ crash_handler_reset(t)
        \/ crash_handler_raise(t)

\* a program of one thread, in either build
InitSeq == Init /\ threads = {MainThread}

Spec == InitSeq /\ [][Next]_vars

\* mttest.c without its crash: the threads of a thread-safe build call
\* leaked_init, allocate, and free what they hold
InitMT == Init /\ threads = Threads

NextMT ==
    \E t \in Threads :
        \/ leaked_init_test(t)
        \/ leaked_init_install(t)
        \/ xmalloc_call(t)
        \/ xcalloc_call(t)
        \/ xcalloc_null(t)
        \/ add_blk(t)
        \/ xfree_own(t)
        \/ real_free(t)

SpecMT == InitMT /\ [][NextMT]_vars

\* the threads of a thread-safe build allocate, resize and free what they
\* hold
NextRe ==
    \E t \in Threads :
        \/ xmalloc_call(t)
        \/ add_blk(t)
        \/ xrealloc_call(t)
        \/ xrealloc_null(t)
        \/ xrealloc_del(t)
        \/ xfree_own(t)
        \/ real_free(t)

SpecRe == InitMT /\ [][NextRe]_vars

\* mttest.c with its crash: the threads of a thread-safe build call
\* leaked_init and allocate, a thread faults, main returns
NextSig ==
    \E t \in Threads :
        \/ leaked_init_test(t)
        \/ leaked_init_install(t)
        \/ xmalloc_call(t)
        \/ add_blk(t)
        \/ exit_call(t)
        \/ show_leaks_lock(t)
        \/ show_leaks_out(t)
        \/ fault(t)
        \/ signal_in_add(t)
        \/ crash_handler_reset(t)
        \/ crash_handler_raise(t)

SpecSig == InitMT /\ [][NextSig]_vars

\* a thread that runs _crash_handler is scheduled until it blocks or the
\* process ends
FairSig ==
    /\ SpecSig
    /\ \A t \in Threads :
          /\ WF_vars(show_leaks_lock(t))
          /\ WF_vars(show_leaks_out(t))
          /\ WF_vars(crash_handler_reset(t))
          /\ WF_vars(crash_handler_raise(t))

(***************************************************************************)
(* What the claims read.                                                   *)
(***************************************************************************)
\* the nodes of the registry, by a full scan of every chain
Records(m) == Nodes(m.table)

\* how many nodes hold address p
Count(m, p) == Cardinality({k \in 1..Len(Records(m)) : Records(m)[k].ptr = p})

HasRecord(m, p) == Count(m, p) > 0

\* every "leak:" line written so far
RECURSIVE LeakLines(_)
LeakLines(rs) ==
    IF rs = << >> THEN << >> ELSE Head(rs).leaks \o LeakLines(Tail(rs))

RECURSIVE SumN(_)
SumN(allocs) ==
    IF allocs = << >> THEN 0 ELSE Head(allocs).n + SumN(Tail(allocs))

\* the process has ended and show_leaks has run on its way out: from
\* exit(), or from _crash_handler before the signal was raised again
ReportRan ==
    \/ proc = "done" /\ atexitN > 0
    \/ proc = "killed" /\ \E t \in threads : pc[t] = "h_raise"

\* the report of a run of allocations: one line per allocation of allocs,
\* with its address and size, and the totals
ReportLists(allocs) ==
    LET lines == LeakLines(reports)
    IN  /\ Len(lines) = Len(allocs)
        /\ \A i \in 1..Len(allocs) :
              Cardinality({k \in 1..Len(lines) :
                              /\ lines[k].ptr = allocs[i].ptr
                              /\ lines[k].sz = allocs[i].n}) = 1
        /\ IF allocs = << >>
           THEN reports = << >>
           ELSE /\ Len(reports) = 1
                /\ reports[1].total = <<[count |-> Len(allocs),
                                         bytes |-> SumN(allocs)]>>

Inserted(e) == e.added

(***************************************************************************)
(* C1.  After a run of malloc and calloc calls only, the report at the end *)
(* lists exactly one record per successful allocation, and its total is    *)
(* the sum of the sizes asked for.                                         *)
(***************************************************************************)
C1_Original ==
    (hist.allocOnly /\ ReportRan) => ReportLists(hist.allocs)

\* C1 as amended: the report lists exactly one record per successful
\* allocation whose record _add_blk inserted (one whose node or bucket array
\* could not be allocated is not listed), and its total is the sum of the
\* sizes asked for by those.
C1_Amended ==
    (hist.allocOnly /\ ReportRan) =>
        ReportLists(SelectSeq(hist.allocs, Inserted))

\* two allocations, a malloc and a calloc, listed after the table has grown
C1_Witness ==
    /\ hist.allocOnly /\ ReportRan
    /\ Len(hist.allocs) = 2
    /\ \A i \in 1..2 : hist.allocs[i].added
    /\ hist.allocs[1].n # hist.allocs[2].n
    /\ Len(reports) = 1 /\ Len(reports[1].leaks) = 2
    /\ reports[1].leaks[1].ptr = 32

(***************************************************************************)
(* C2.  Two consecutive releases of an allocated, tracked address p: the   *)
(* first removes p's record and prints nothing; the second finds no        *)
(* record, prints exactly one "invalid free" and leaves the registry as it *)
(* is.  (The second release is evaluated on the registry the first leaves: *)
(* nothing between the two calls touches it.)                              *)
(***************************************************************************)
C2_Original ==
    [][\A t \in Threads, p \in Addrs :
          (xfree(t, p) /\ p \in Owned(t) /\ HasRecord(mgr, p)) =>
              /\ pc'[t] = "free"
              /\ invalidFrees' = invalidFrees
              /\ mgr'.alive = mgr.alive - 1
              /\ LET second == _del_blk(mgr', p)
                 IN  /\ ~second.ok
                     /\ second.diag = 1
                     /\ second.mgr = mgr']_vars

(***************************************************************************)
(* C3.  A release of a non-null address that has no record prints exactly  *)
(* one "invalid free" and leaves the registry unchanged (every record and  *)
(* mgr.alive), and free is not called, in any reachable registry state.    *)
(***************************************************************************)
C3_UnmatchedRelease ==
    [][\A t \in Threads, p \in Addrs \cup {FakePtr} :
          (xfree(t, p) /\ ~HasRecord(mgr, p)) =>
              /\ invalidFrees' = invalidFrees + 1
              /\ mgr' = mgr
              /\ pc'[t] = "idle"]_vars

\* an invalid free has been reported while the registry holds two records,
\* both of blocks still allocated
C3_Witness ==
    /\ invalidFrees = 1
    /\ mgr.alive = 2
    /\ \A a \in Addrs : heap[a] # Free /\ Count(mgr, a) = 1
    /\ ~hist.dropped

(***************************************************************************)
(* C4.  free is called by _xfree only when _del_blk has just removed a     *)
(* record for p, and so never twice for the same allocation: whenever      *)
(* _xfree is about to call free(p), p is a block still allocated.          *)
(***************************************************************************)
C4_Original ==
    \A t \in Threads :
        pc[t] = "free" => (loc[t].p # NULL /\ heap[loc[t].p] # Free)

(***************************************************************************)
(* C5.  A resize in place of a tracked address leaves exactly one record   *)
(* for it, with the new size and origin, and mgr.alive as it was; one      *)
(* release then leaves no record for it.  (Stated for the runs in which no *)
(* node allocation has failed.)                                            *)
(***************************************************************************)
C5_Original ==
    [][\A t \in Threads :
          (/\ pc[t] = "add" /\ pc'[t] = "idle"
           /\ ~hist'.dropped
           /\ loc[t].old = loc[t].p
           /\ Count(mgr, loc[t].p) = 1) =>
              /\ Count(mgr', loc[t].p) = 1
              /\ \E k \in 1..Len(Records(mgr')) :
                    Records(mgr')[k] = Blk(loc[t].p, loc[t].n, loc[t].file,
                                           loc[t].line)
              /\ mgr'.alive = mgr.alive
              /\ LET rel == _del_blk(mgr', loc[t].p)
                 IN  rel.ok /\ Count(rel.mgr, loc[t].p) = 0]_vars

\* how many nodes of m equal b
CountBlk(m, b) == Cardinality({k \in 1..Len(Records(m)) : Records(m)[k] = b})

NodeSet(m) == {Records(m)[k] : k \in 1..Len(Records(m))}

\* the records of every address outside ps are the same in m1 and m2
OthersSame(m1, m2, ps) ==
    \A b \in NodeSet(m1) \cup NodeSet(m2) :
        b.ptr \notin ps => CountBlk(m1, b) = CountBlk(m2, b)

(***************************************************************************)
(* C6.  A resize that moves a tracked block from old to p leaves no record *)
(* for old and exactly one for p, with the new size and the calling        *)
(* origin, and every other record as it was.  (The call changes the        *)
(* registry in two steps: _del_blk(old), then _add_blk(p).  Stated for the *)
(* runs in which no node allocation has failed.)                           *)
(***************************************************************************)
C6_Original ==
    [][\A t \in Threads :
          /\ (pc[t] = "rdel" /\ pc'[t] = "add"
              /\ ~hist.dropped
              /\ HasRecord(mgr, loc[t].old)) =>
                 /\ Count(mgr', loc[t].old) = 0
                 /\ OthersSame(mgr, mgr', {loc[t].old})
          /\ (pc[t] = "add" /\ pc'[t] = "idle"
              /\ ~hist'.dropped
              /\ loc[t].old \notin {NULL, loc[t].p}) =>
                 /\ Count(mgr', loc[t].old) = 0
                 /\ Count(mgr', loc[t].p) = 1
                 /\ CountBlk(mgr', Blk(loc[t].p, loc[t].n, loc[t].file,
                                       loc[t].line)) = 1
                 /\ OthersSame(mgr, mgr', {loc[t].p})]_vars

\* every thread is between two calls and holds no block
Quiescent ==
    /\ \A t \in threads : pc[t] = "idle"
    /\ \A a \in Addrs : heap[a] = Free

NoLiveRecord ==
    /\ mgr.alive = 0
    /\ \A i \in 1..Len(mgr.table) : mgr.table[i] = << >>

WellPlaced(m) ==
    \A i \in 1..Len(m.table) : \A k \in 1..Len(m.table[i]) :
        _hash_ptr(m.table[i][k].ptr, m.capacity) = i - 1

GrowthStep ==
    /\ mgr.table # NullTable /\ mgr'.table # NullTable
    /\ mgr'.capacity # mgr.capacity

(***************************************************************************)
(* C8.  A step that grows the table doubles its capacity and keeps every   *)
(* record: a full scan after it finds the records of before, each once     *)
(* more than before only if it is the record the insert adds, and every    *)
(* record lies in the chain _hash_ptr gives for the new capacity.          *)
(***************************************************************************)
C8_GrowthPreserves ==
    [][GrowthStep =>
          /\ mgr'.capacity = 2 * mgr.capacity
          /\ Len(mgr'.table) = mgr'.capacity
          /\ WellPlaced(mgr')
          /\ \E t \in threads :
                /\ pc[t] = "add"
                /\ LET nb == Blk(loc[t].p, loc[t].n, loc[t].file, loc[t].line)
                       new == mgr'.alive - mgr.alive
                   IN  /\ new \in {0, 1}
                       /\ \A b \in NodeSet(mgr) \cup NodeSet(mgr') \cup {nb} :
                             CountBlk(mgr', b) =
                                CountBlk(mgr, b) + IF b = nb THEN new ELSE 0
             ]_vars

\* the table has grown twice and holds three records, two of one address
C8_Witness ==
    /\ mgr.capacity = 4 * LEAKED_INITIAL_CAP
    /\ mgr.alive = 3
    /\ \E a \in Addrs : Count(mgr, a) = 2

(***************************************************************************)
(* C9.  Whenever no thread is inside a critical section of the registry,   *)
(* mgr.alive is the number of nodes reachable through the chains.          *)
(***************************************************************************)
C9_AliveIsNodeCount ==
    lock = 0 => mgr.alive = Len(Records(mgr))

\* two nodes in a table whose growth failed, after a node allocation failed
C9_Witness ==
    /\ lock = 0
    /\ hist.dropped
    /\ mgr.capacity = LEAKED_INITIAL_CAP
    /\ mgr.alive = 2
    /\ Len(Records(mgr)) = 2

(***************************************************************************)
(* C10.  However often leaked_init is called, one call after another or by *)
(* several threads at once, show_leaks is registered with atexit at most   *)
(* once.                                                                   *)
(***************************************************************************)
C10_Original == atexitN <= 1

(***************************************************************************)
(* C11.  The report is entered exactly once per process: over every        *)
(* execution (normal exit, a fatal signal, fatal signals in two threads)   *)
(* show_leaks detaches the table and writes its report at most once.       *)
(***************************************************************************)
C11_Original == Len(reports) <= 1

\* thread t runs _crash_handler
InHandler(t) == sig[t] # "none"

\* the steps of _crash_handler come in the order of its text: show_leaks
\* returns before signal(sig, SIG_DFL), which comes before raise(sig)
HandlerOrder ==
    \A t \in Threads :
        /\ (InHandler(t)' /\ ~InHandler(t)) => pc'[t] = "show"
        /\ (pc'[t] = "h_reset" /\ pc[t] # "h_reset") =>
               (InHandler(t) /\ pc[t] \in {"show", "print"})
        /\ (pc'[t] = "h_raise" /\ pc[t] # "h_raise") =>
               (pc[t] = "h_reset" /\ disp'[sig[t]] = "DFL")
        /\ (InHandler(t) /\ proc' = "killed" /\ proc # "killed") =>
               \E u \in Threads : pc[u] = "h_raise" /\ disp[sig[u]] = "DFL"

(***************************************************************************)
(* C12.  After leaked_init, a delivered fatal signal makes the handler     *)
(* print its notice, run the report, restore the default disposition and   *)
(* raise the signal again, in this order, and the process eventually ends  *)
(* by the default action of the signal.                                    *)
(***************************************************************************)
C12_Original ==
    /\ [][HandlerOrder]_vars
    /\ \A t \in Threads : InHandler(t) ~> (proc = "killed")

\* C12 as amended: the handler's steps come in this order, and the process
\* eventually ends by the default action of a fatal signal, unless a thread
\* was signalled while it held the registry lock (the handler then blocks
\* in show_leaks) or exit() in another thread ends the process first.
C12_Amended ==
    /\ [][HandlerOrder]_vars
    /\ \A t \in Threads :
          InHandler(t) ~> (proc = "killed" \/ proc = "done" \/ lock # 0)

\* a handler has printed a report and raised its signal again: the process
\* was killed with the lock free
C12_Witness ==
    /\ proc = "killed" /\ lock = 0
    /\ \E t \in Threads : InHandler(t) /\ pc[t] = "h_raise"
                          /\ disp[sig[t]] = "DFL"
    /\ Len(reports) = 1

(***************************************************************************)
(* C13.  When show_leaks runs and the registry holds no live record, it    *)
(* writes exactly one "no leaks" line; when there are live records it      *)
(* writes a line per record and then one summary line with the count and   *)
(* the bytes.                                                              *)
(***************************************************************************)
C13_Original ==
    [][\A t \in Threads :
          /\ (pc[t] = "show" /\ pc'[t] # "show" /\ mgr.alive = 0) =>
                 Len(reports') = Len(reports) + 1
          /\ (pc[t] = "print" /\ pc'[t] # "print") =>
                 /\ Len(reports') = Len(reports) + 1
                 /\ LET r == reports'[Len(reports')]
                    IN  /\ r.leaks = Nodes(snapshot[t])
                        /\ Len(r.total) = 1
                        /\ r.total[1].count = Len(r.leaks)]_vars

(***************************************************************************)
(* C14.  When realloc returns NULL, _xrealloc returns NULL and leaves the  *)
(* registry as it is: the record of old with its size and origin,          *)
(* mgr.alive, and no diagnostic is printed; the block stays allocated.     *)
(***************************************************************************)
C14_FailedResize ==
    [][\A t \in Threads :
          (pc[t] # pc'[t] /\ "rnull" \in {pc[t], pc'[t]}) =>
              /\ mgr' = mgr
              /\ invalidFrees' = invalidFrees
              /\ reports' = reports
              /\ heap' = heap
              /\ pc'[t] \in {"rnull", "idle"}]_vars

\* realloc has just failed for a tracked block, whose record is as malloc
\* left it
C14_Witness ==
    \E t \in Threads :
        /\ pc[t] = "rnull"
        /\ loc[t].old # NULL
        /\ heap[loc[t].old] = t
        /\ Records(mgr) = <<Blk(loc[t].old, MallocSite.n, MallocSite.file,
                                MallocSite.line)>>
        /\ mgr.alive = 1
        /\ invalidFrees = 0

\* a table is valid: absent, or one chain per bucket
ValidTable(m) == m.table = NullTable \/ Len(m.table) = m.capacity

(***************************************************************************)
(* C15.  A failing bookkeeping allocation (the node, the first bucket      *)
(* array, the grown bucket array) never faults and never changes what the  *)
(* tracked call returns: _add_blk returns to its caller, which returns the *)
(* pointer, and leaves a valid registry.                                   *)
(***************************************************************************)
C15_Original ==
    [][\A t \in Threads :
          add_blk(t) =>
              /\ pc'[t] = "idle"
              /\ sig' = sig /\ proc' = proc /\ lock' = 0
              /\ heap' = heap
              /\ ValidTable(mgr')
              /\ mgr'.alive = Len(Records(mgr'))]_vars

(***************************************************************************)
(* C16.  calloc(count, size): when count * size exceeds SIZE_MAX the call  *)
(* returns NULL without calling the underlying allocator and inserts no    *)
(* record; when it does not and the allocation succeeds, the size recorded *)
(* is exactly count * size.                                                *)
(***************************************************************************)
C16_ZeroAllocate ==
    [][\A t \in Threads :
          /\ \A a \in CallocArgs :
                xcalloc(t, a[1], a[2]) =>
                    IF a[1] * a[2] > SIZE_MAX
                    THEN /\ pc'[t] = "cnull"
                         /\ heap' = heap /\ mgr' = mgr
                    ELSE \/ UNCHANGED <<pc, heap, mgr>>
                         \/ /\ pc'[t] = "add"
                            /\ loc'[t].n = a[1] * a[2]
                            /\ loc'[t].p # NULL /\ heap[loc'[t].p] = Free
          /\ xcalloc_null(t) =>
                /\ pc'[t] = "idle" /\ heap' = heap /\ mgr' = mgr
          /\ (add_blk(t) /\ loc[t].line = CallocSite.line
                /\ mgr'.alive = mgr.alive + 1) =>
                LET b == Blk(loc[t].p, loc[t].n, loc[t].file, loc[t].line)
                IN  CountBlk(mgr', b) = CountBlk(mgr, b) + 1]_vars

\* an overflowing calloc is about to return NULL while the registry holds
\* the record of an earlier calloc of 2 * 1 bytes
C16_Witness ==
    \E t \in Threads :
        /\ pc[t] = "cnull"
        /\ \E a \in Addrs :
              /\ heap[a] = t
              /\ Records(mgr) = <<Blk(a, 2, CallocSite.file, CallocSite.line)>>
        /\ \E a \in Addrs : heap[a] = Free

(***************************************************************************)
(* C17.  A resize that succeeds and moves the block never prints "invalid  *)
(* free", whatever the registry holds for the old address (a record, or    *)
(* none because it was dropped or drained): the removal of the old record  *)
(* in _xrealloc is silent.                                                 *)
(***************************************************************************)
C17_Original ==
    [][\A t \in Threads :
          xrealloc_del(t) => invalidFrees' = invalidFrees]_vars

(***************************************************************************)
(* C18.  The locked prefix of show_leaks detaches the whole table in one   *)
(* step and leaves the registry empty (no table, capacity 0, alive 0); a   *)
(* record inserted by another thread after the detach is not in the report *)
(* being printed, every record present at the detach is in it exactly      *)
(* once, and a later insert recreates the table at the initial capacity.   *)
(***************************************************************************)
C18_Detach ==
    [][\A t \in Threads :
          /\ (show_leaks_lock(t) /\ pc'[t] = "print") =>
                 /\ mgr' = Mgr0
                 /\ snapshot'[t] = mgr.table
                 /\ Len(Nodes(snapshot'[t])) = mgr.alive
          /\ (pc[t] = "print" /\ pc'[t] = "print") =>
                 snapshot'[t] = snapshot[t]
          /\ show_leaks_out(t) =>
                 /\ Len(reports') = Len(reports) + 1
                 /\ reports'[Len(reports')].leaks = Nodes(snapshot[t])
          /\ (add_blk(t) /\ mgr.table = NullTable /\ mgr'.alive = 1) =>
                 /\ mgr'.capacity = LEAKED_INITIAL_CAP
                 /\ Len(mgr'.table) = LEAKED_INITIAL_CAP
                 /\ Records(mgr') = <<Blk(loc[t].p, loc[t].n, loc[t].file,
                                         loc[t].line)>>]_vars

\* a report lists the one record of the detached table, while the registry
\* holds the record another thread inserted after the detach
C18_Witness ==
    /\ Len(reports) = 1
    /\ Len(reports[1].leaks) = 1
    /\ mgr.alive = 1
    /\ mgr.capacity = LEAKED_INITIAL_CAP
    /\ Len(Records(mgr)) = 1
    /\ Records(mgr)[1].ptr # reports[1].leaks[1].ptr
    /\ \A t \in Threads : snapshot[t] = NullTable

\* thread t was signalled inside a critical section: its handler has called
\* show_leaks, whose LOCK() waits for the lock t holds
Stuck(t) == threadSafe /\ lock = t /\ InHandler(t) /\ pc[t] = "show"

\* the handler of t is in show_leaks, before its return
Reporting(t) == InHandler(t) /\ pc[t] \in {"show", "print"}

(***************************************************************************)
(* C19.  In the thread-safe build, a thread signalled while it holds the   *)
(* registry lock blocks forever in the handler's call of show_leaks: its   *)
(* report is never printed and the signal never raised again.  If the      *)
(* signalled thread does not hold the lock, its report completes (as long  *)
(* as the process lives).                                                  *)
(***************************************************************************)
C19_Original ==
    /\ [][\A t \in Threads : Stuck(t) => Stuck(t)']_vars
    /\ \A t \in Threads :
          (Reporting(t) /\ lock # t) ~> (~Reporting(t) \/ ~Running)

\* C19 as amended: a thread signalled while it holds the lock blocks forever
\* in show_leaks; if the signalled thread does not hold the lock, its report
\* completes as long as the process lives, unless another thread was
\* signalled while holding the lock: show_leaks then blocks in every thread.
C19_Amended ==
    /\ [][\A t \in Threads : Stuck(t) => Stuck(t)']_vars
    /\ \A t \in Threads :
          (Reporting(t) /\ lock # t) ~>
              (~Reporting(t) \/ ~Running \/ lock # 0)

\* thread t is blocked in show_leaks on its own lock, after the handler of
\* another thread, signalled outside the lock, has printed its report
C19_Witness ==
    \E t, u \in Threads :
        /\ Stuck(t) /\ Running
        /\ u # t /\ InHandler(u) /\ pc[u] \in {"h_reset", "h_raise"}
        /\ Len(reports) = 1

(***************************************************************************)
(* C20.  In the thread-safe build, in every interleaving of allocations,   *)
(* releases and resizes by several threads, the registry holds no record   *)
(* for an address the allocator may hand out again: the address a tracked  *)
(* allocation (or a moving resize) has just obtained has no record yet.    *)
(***************************************************************************)
C20_Original ==
    \A t \in Threads :
        (pc[t] = "add" /\ lock = 0 /\ loc[t].p # loc[t].old) =>
            Count(mgr, loc[t].p) = 0

=============================================================================
